---- MODULE Spec2Model ----
(***************************************************************************)
(* Verification model of the spm.cmake library template                    *)
(*   templates/lib/src/PROJECT_SLUG/fwd.hh                                 *)
(* and of the token substitution that turns it into a project header.      *)
(*                                                                         *)
(* A text is a sequence of lines; a line is a sequence of one-character    *)
(* strings.  The template text is transcribed character by character from  *)
(* the source file.  The expansion tool is not part of the source tree; it *)
(* is modelled as the literal, left-to-right, non-rescanning replacement   *)
(* of the placeholder by a configured value.                               *)
(***************************************************************************)
EXTENDS Integers, Sequences, FiniteSets, TLC

VARIABLES file, value, passes, first, last

vars == <<file, value, passes, first, last>>

(***************************************************************************)
(* Bounds                                                                  *)
(***************************************************************************)
\* longest replacement value enumerated over Alphabet
MaxValueLen == 3
\* number of tool runs (first expansion included) applied to one instance
MaxPasses == 3

(***************************************************************************)
(* The template, line by line                                              *)
(***************************************************************************)
\* fwd.hh line 1: #pragma once
Line1 ==
    <<"#", "p", "r", "a", "g", "m", "a", " ", "o", "n", "c", "e">>

\* fwd.hh line 2: (blank)
Line2 ==
    <<>>

\* fwd.hh line 3: // Include forward declaration headers from dependencies
Line3 ==
    <<"/", "/", " ", "I", "n", "c", "l", "u", "d", "e", " ", "f", "o",
    "r", "w", "a", "r", "d", " ", "d", "e", "c", "l", "a", "r", "a",
    "t", "i", "o", "n", " ", "h", "e", "a", "d", "e", "r", "s", " ",
    "f", "r", "o", "m", " ", "d", "e", "p", "e", "n", "d", "e", "n",
    "c", "i", "e", "s">>

\* fwd.hh line 4: // Example: #include <clean-core/fwd.hh>
Line4 ==
    <<"/", "/", " ", "E", "x", "a", "m", "p", "l", "e", ":", " ", "#",
    "i", "n", "c", "l", "u", "d", "e", " ", "<", "c", "l", "e", "a",
    "n", "-", "c", "o", "r", "e", "/", "f", "w", "d", ".", "h", "h",
    ">">>

\* fwd.hh line 5: (blank)
Line5 ==
    <<>>

\* fwd.hh line 6: namespace @PROJECT_NAMESPACE@
Line6 ==
    <<"n", "a", "m", "e", "s", "p", "a", "c", "e", " ", "@", "P", "R",
    "O", "J", "E", "C", "T", "_", "N", "A", "M", "E", "S", "P", "A",
    "C", "E", "@">>

\* fwd.hh line 7: {
Line7 ==
    <<"{">>

\* fwd.hh line 8: (blank)
Line8 ==
    <<>>

\* fwd.hh line 9: // Forward declarations
Line9 ==
    <<"/", "/", " ", "F", "o", "r", "w", "a", "r", "d", " ", "d", "e",
    "c", "l", "a", "r", "a", "t", "i", "o", "n", "s">>

\* fwd.hh line 10: // Examples:
Line10 ==
    <<"/", "/", " ", "E", "x", "a", "m", "p", "l", "e", "s", ":">>

\* fwd.hh line 11: //   struct Foo;
Line11 ==
    <<"/", "/", " ", " ", " ", "s", "t", "r", "u", "c", "t", " ", "F",
    "o", "o", ";">>

\* fwd.hh line 12: //   class Bar;
Line12 ==
    <<"/", "/", " ", " ", " ", "c", "l", "a", "s", "s", " ", "B", "a",
    "r", ";">>

\* fwd.hh line 13: //   template <class T, class = void>
Line13 ==
    <<"/", "/", " ", " ", " ", "t", "e", "m", "p", "l", "a", "t", "e",
    " ", "<", "c", "l", "a", "s", "s", " ", "T", ",", " ", "c", "l",
    "a", "s", "s", " ", "=", " ", "v", "o", "i", "d", ">">>

\* fwd.hh line 14: //   class TemplatedClass;
Line14 ==
    <<"/", "/", " ", " ", " ", "c", "l", "a", "s", "s", " ", "T", "e",
    "m", "p", "l", "a", "t", "e", "d", "C", "l", "a", "s", "s", ";">>

\* fwd.hh line 15: //   enum class MyEnum : uint32_t;
Line15 ==
    <<"/", "/", " ", " ", " ", "e", "n", "u", "m", " ", "c", "l", "a",
    "s", "s", " ", "M", "y", "E", "n", "u", "m", " ", ":", " ", "u",
    "i", "n", "t", "3", "2", "_", "t", ";">>

\* fwd.hh line 16: (blank)
Line16 ==
    <<>>

\* fwd.hh line 17: // Small, commonly used enums can be fully defined here
Line17 ==
    <<"/", "/", " ", "S", "m", "a", "l", "l", ",", " ", "c", "o", "m",
    "m", "o", "n", "l", "y", " ", "u", "s", "e", "d", " ", "e", "n",
    "u", "m", "s", " ", "c", "a", "n", " ", "b", "e", " ", "f", "u",
    "l", "l", "y", " ", "d", "e", "f", "i", "n", "e", "d", " ", "h",
    "e", "r", "e">>

\* fwd.hh line 18: (blank)
Line18 ==
    <<>>

\* fwd.hh line 19: // Common type aliases
Line19 ==
    <<"/", "/", " ", "C", "o", "m", "m", "o", "n", " ", "t", "y", "p",
    "e", " ", "a", "l", "i", "a", "s", "e", "s">>

\* fwd.hh line 20: // Example: using IntTemplatedClass = TemplatedClass<int>
Line20 ==
    <<"/", "/", " ", "E", "x", "a", "m", "p", "l", "e", ":", " ", "u",
    "s", "i", "n", "g", " ", "I", "n", "t", "T", "e", "m", "p", "l",
    "a", "t", "e", "d", "C", "l", "a", "s", "s", " ", "=", " ", "T",
    "e", "m", "p", "l", "a", "t", "e", "d", "C", "l", "a", "s", "s",
    "<", "i", "n", "t", ">">>

\* fwd.hh line 21: (blank)
Line21 ==
    <<>>

\* fwd.hh line 22: // NOTE: Default template arguments should always be specified here
Line22 ==
    <<"/", "/", " ", "N", "O", "T", "E", ":", " ", "D", "e", "f", "a",
    "u", "l", "t", " ", "t", "e", "m", "p", "l", "a", "t", "e", " ",
    "a", "r", "g", "u", "m", "e", "n", "t", "s", " ", "s", "h", "o",
    "u", "l", "d", " ", "a", "l", "w", "a", "y", "s", " ", "b", "e",
    " ", "s", "p", "e", "c", "i", "f", "i", "e", "d", " ", "h", "e",
    "r", "e">>

\* fwd.hh line 23: (blank)
Line23 ==
    <<>>

\* fwd.hh line 24: }
Line24 ==
    <<"}">>
(***************************************************************************)
(* Faulty variants of the template, each a slip a template author could    *)
(* make; every checked property is required to tell one of them from the   *)
(* real template.                                                          *)
(***************************************************************************)
\* the closing brace of line 24 is missing
fwd_hh_unclosed ==
    << Line1, Line2, Line3, Line4, Line5, Line6, Line7, Line8,
       Line9, Line10, Line11, Line12, Line13, Line14, Line15, Line16,
       Line17, Line18, Line19, Line20, Line21, Line22, Line23 >>

\* line 4 names the dependency header through a second, never replaced,
\* token: // Example: #include <@PROJECT_SLUG@/fwd.hh>
fwd_hh_secondToken ==
    << Line1, Line2, Line3,
       <<"/", "/", " ", "E", "x", "a", "m", "p", "l", "e", ":", " ", "#",
         "i", "n", "c", "l", "u", "d", "e", " ", "<", "@", "P", "R", "O",
         "J", "E", "C", "T", "_", "S", "L", "U", "G", "@", "/", "f", "w",
         "d", ".", "h", "h", ">">>,
       Line5, Line6, Line7, Line8,
       Line9, Line10, Line11, Line12, Line13, Line14, Line15, Line16,
       Line17, Line18, Line19, Line20, Line21, Line22, Line23, Line24 >>

\* line 1 opens a classic guard that is never closed: #ifndef FWD_HH
fwd_hh_ifndefGuard ==
    << <<"#", "i", "f", "n", "d", "e", "f", " ", "F", "W", "D", "_", "H", "H">>,
       Line2, Line3, Line4, Line5, Line6, Line7, Line8,
       Line9, Line10, Line11, Line12, Line13, Line14, Line15, Line16,
       Line17, Line18, Line19, Line20, Line21, Line22, Line23, Line24 >>

\* line 6 names a literal namespace instead of the token: namespace proj
fwd_hh_literalNamespace ==
    << Line1, Line2, Line3, Line4, Line5,
       <<"n", "a", "m", "e", "s", "p", "a", "c", "e", " ", "p", "r", "o", "j">>,
       Line7, Line8,
       Line9, Line10, Line11, Line12, Line13, Line14, Line15, Line16,
       Line17, Line18, Line19, Line20, Line21, Line22, Line23, Line24 >>

\* the example of line 11 lost its comment marker: struct Foo;
fwd_hh_liveDeclaration ==
    << Line1, Line2, Line3, Line4, Line5, Line6, Line7, Line8,
       Line9, Line10,
       <<"s", "t", "r", "u", "c", "t", " ", "F", "o", "o", ";">>,
       Line12, Line13, Line14, Line15, Line16,
       Line17, Line18, Line19, Line20, Line21, Line22, Line23, Line24 >>

\* the comment of line 9 also carries the token:
\* // Forward declarations of @PROJECT_NAMESPACE@
fwd_hh_tokenInComment ==
    << Line1, Line2, Line3, Line4, Line5, Line6, Line7, Line8,
       Line9 \o <<" ", "o", "f", " ">> \o SubSeq(Line6, 11, Len(Line6)),
       Line10, Line11, Line12, Line13, Line14, Line15, Line16,
       Line17, Line18, Line19, Line20, Line21, Line22, Line23, Line24 >>

\* the variable name of line 6 is pasted twice, leaving the tail
\* PROJECT_NAMESPACE@ behind the token:
\* namespace @PROJECT_NAMESPACE@PROJECT_NAMESPACE@
fwd_hh_doubledName ==
    << Line1, Line2, Line3, Line4, Line5,
       Line6 \o SubSeq(Line6, 12, Len(Line6)),
       Line7, Line8,
       Line9, Line10, Line11, Line12, Line13, Line14, Line15, Line16,
       Line17, Line18, Line19, Line20, Line21, Line22, Line23, Line24 >>

(***************************************************************************)
(* The 24-line template                                                    *)
(***************************************************************************)
fwd_hh ==
    << Line1, Line2, Line3, Line4, Line5, Line6, Line7, Line8,
       Line9, Line10, Line11, Line12, Line13, Line14, Line15, Line16,
       Line17, Line18, Line19, Line20, Line21, Line22, Line23, Line24 >>

\* the placeholder variable named on line 6
PROJECT_NAMESPACE ==
    <<"P", "R", "O", "J", "E", "C", "T", "_", "N", "A", "M", "E", "S",
      "P", "A", "C", "E">>

\* the delimiter that wraps a placeholder variable
Delim == "@"

\* the placeholder token as it is written in the template
Token == <<Delim>> \o PROJECT_NAMESPACE \o <<Delim>>

NL == "\n"

(***************************************************************************)
(* Token substitution                                                      *)
(***************************************************************************)
RECURSIVE ReplaceAll(_, _, _)
\* every occurrence of tok in s replaced by v, scanning left to right;
\* the inserted text is not scanned again
ReplaceAll(s, tok, v) ==
    IF Len(s) < Len(tok) THEN s
    ELSE IF SubSeq(s, 1, Len(tok)) = tok
         THEN v \o ReplaceAll(SubSeq(s, Len(tok) + 1, Len(s)), tok, v)
         ELSE <<s[1]>> \o ReplaceAll(Tail(s), tok, v)

RECURSIVE SplitLines(_)
\* the lines of a character sequence: a newline ends a line
SplitLines(s) ==
    IF \A i \in 1..Len(s) : s[i] # NL THEN <<s>>
    ELSE LET k == CHOOSE i \in 1..Len(s) :
                      s[i] = NL /\ \A j \in 1..(i - 1) : s[j] # NL
         IN  <<SubSeq(s, 1, k - 1)>> \o SplitLines(SubSeq(s, k + 1, Len(s)))

RECURSIVE Substitute(_, _)
\* the text after one run of the tool with value v.  The token holds no
\* newline, so no occurrence spans two lines and the replacement is done
\* line by line; a newline inside v splits the line it lands on.
Substitute(text, v) ==
    IF text = <<>> THEN <<>>
    ELSE SplitLines(ReplaceAll(Head(text), Token, v)) \o Substitute(Tail(text), v)

(***************************************************************************)
(* Replacement values                                                      *)
(***************************************************************************)
\* characters a configured value is built from: a letter, a digit, an
\* underscore, the delimiter, both braces and a newline
Alphabet == {"n", "9", "_", Delim, "{", "}", NL}

BoundedSeqs(S, n) == UNION {[1..k -> S] : k \in 0..n}

\* longer values of interest: a realistic project namespace, the token
\* itself, and the token without its closing delimiter
SpecialValues ==
    { <<"m", "y", "p", "r", "o", "j">>,
      Token,
      <<Delim>> \o PROJECT_NAMESPACE }

Values == BoundedSeqs(Alphabet, MaxValueLen) \cup SpecialValues

\* no value has been configured yet
NoValue == <<"<unset>">>

(***************************************************************************)
(* The generator                                                           *)
(***************************************************************************)
Init ==
    /\ file = fwd_hh
    /\ value = NoValue
    /\ passes = 0
    /\ first = fwd_hh
    /\ last = "template"

\* a new project instance is generated: the template is copied and the
\* token replaced by the configured value
Expand(v) ==
    /\ passes = 0
    /\ file' = Substitute(fwd_hh, v)
    /\ first' = Substitute(fwd_hh, v)
    /\ value' = v
    /\ passes' = 1
    /\ last' = "expand"

\* the tool is run again over the already expanded file
Reexpand ==
    /\ passes >= 1
    /\ passes < MaxPasses
    /\ file' = Substitute(file, value)
    /\ passes' = passes + 1
    /\ last' = "reexpand"
    /\ UNCHANGED <<value, first>>

\* the instance is generated afresh from the template with the same value
Regenerate ==
    /\ passes >= 1
    /\ passes < MaxPasses
    /\ file' = Substitute(fwd_hh, value)
    /\ passes' = passes + 1
    /\ last' = "regenerate"
    /\ UNCHANGED <<value, first>>

Next ==
    \/ \E v \in Values : Expand(v)
    \/ Reexpand
    \/ Regenerate

Spec == Init /\ [][Next]_vars

TypeOK ==
    /\ passes \in 0..MaxPasses
    /\ value \in Values \cup {NoValue}
    /\ last \in {"template", "expand", "reexpand", "regenerate"}
    /\ (passes = 0) <=> (last = "template")

(***************************************************************************)
(* Lexical vocabulary of the target language                               *)
(***************************************************************************)
Letters ==
    {"a", "b", "c", "d", "e", "f", "g", "h", "i", "j", "k", "l", "m",
     "n", "o", "p", "q", "r", "s", "t", "u", "v", "w", "x", "y", "z",
     "A", "B", "C", "D", "E", "F", "G", "H", "I", "J", "K", "L", "M",
     "N", "O", "P", "Q", "R", "S", "T", "U", "V", "W", "X", "Y", "Z"}

Digits == {"0", "1", "2", "3", "4", "5", "6", "7", "8", "9"}

IdentStart == Letters \cup {"_"}

IdentChars == IdentStart \cup Digits

\* s is an identifier of the target language
ValidIdentifier(s) ==
    /\ Len(s) >= 1
    /\ s[1] \in IdentStart
    /\ \A i \in 1..Len(s) : s[i] \in IdentChars

HasChar(s, c) == \E i \in 1..Len(s) : s[i] = c

NoNewline(s) == ~HasChar(s, NL)

IsPrefix(p, s) == Len(p) <= Len(s) /\ SubSeq(s, 1, Len(p)) = p

\* s holds a delimiter-wrapped token: a delimiter, a non-empty run of
\* identifier characters, a delimiter
HasPlaceholder(s) ==
    \E i \in 1..Len(s) : \E j \in (i + 2)..Len(s) :
        /\ s[i] = Delim
        /\ s[j] = Delim
        /\ \A k \in (i + 1)..(j - 1) : s[k] \in IdentChars

IsBlank(l) == \A i \in 1..Len(l) : l[i] = " "

IsComment(l) == IsPrefix(<<"/", "/">>, l)

PragmaOnce == <<"#", "p", "r", "a", "g", "m", "a", " ", "o", "n", "c", "e">>

NamespaceKw == <<"n", "a", "m", "e", "s", "p", "a", "c", "e", " ">>

IsNamespaceLine(l) == IsPrefix(NamespaceKw, l)

\* the name that follows the namespace keyword
NamespaceName(l) == SubSeq(l, Len(NamespaceKw) + 1, Len(l))

IsLoneBrace(l) == l = <<"{">> \/ l = <<"}">>

IsDirective(l) == Len(l) >= 1 /\ l[1] = "#"

\* a preprocessor line that opens a conditional (#if, #ifdef, #ifndef)
IsCondOpen(l) == IsPrefix(<<"#", "i", "f">>, l)

\* a preprocessor line that closes a conditional
IsCondClose(l) == IsPrefix(<<"#", "e", "n", "d", "i", "f">>, l)

RECURSIVE CodeChars(_)
\* the characters of the non-comment lines, in file order
CodeChars(text) ==
    IF text = <<>> THEN <<>>
    ELSE (IF IsComment(Head(text)) THEN <<>> ELSE Head(text))
         \o CodeChars(Tail(text))

Count(s, c) == Cardinality({i \in 1..Len(s) : s[i] = c})

\* brace depth after the first k characters of s
Depth(s, k) ==
    Cardinality({i \in 1..k : s[i] = "{"}) - Cardinality({i \in 1..k : s[i] = "}"})

\* indices of the namespace header lines of a text
NamespaceLines(text) == {i \in 1..Len(text) : IsNamespaceLine(text[i])}

(***************************************************************************)
(* Properties                                                              *)
(***************************************************************************)

\* C1: after the token has been replaced by a valid namespace identifier,
\* the braces of the non-comment text are balanced: the depth is never
\* negative, never above 1 and 0 at the end of the file, with exactly one
\* opening brace, on the line right after the namespace line, and exactly
\* one closing brace.
C1_BracesBalanced ==
    (passes >= 1 /\ ValidIdentifier(value)) =>
        LET code == CodeChars(file) IN
        /\ \A k \in 0..Len(code) : Depth(code, k) \in {0, 1}
        /\ Depth(code, Len(code)) = 0
        /\ Count(code, "{") = 1
        /\ Count(code, "}") = 1
        /\ Cardinality(NamespaceLines(file)) = 1
        /\ \A n \in NamespaceLines(file) :
               n < Len(file) /\ file[n + 1] = <<"{">>

\* a valid identifier of three characters has been substituted
C1_Witness ==
    /\ passes = 1
    /\ last = "expand"
    /\ value = <<"n", "_", "9">>
    /\ file[6] = NamespaceKw \o value
    /\ file[7] = <<"{">>

\* C2: after the token has been replaced by a value that holds no
\* delimiter, no line of the text, code or comment, holds a
\* delimiter-wrapped token; in the template the token of the namespace
\* line is the only such token.
C2_NoDanglingPlaceholder ==
    /\ (passes >= 1 /\ ~HasChar(value, Delim)) =>
           \A i \in 1..Len(file) : ~HasPlaceholder(file[i])
    /\ passes = 0 =>
           \A i \in 1..Len(file) :
               HasPlaceholder(file[i]) =>
                   IsNamespaceLine(file[i]) /\ NamespaceName(file[i]) = Token

\* a delimiter-free value has replaced the token the template held
C2_Witness ==
    /\ passes = 1
    /\ last = "expand"
    /\ ~HasChar(value, Delim)
    /\ Len(value) = MaxValueLen
    /\ HasPlaceholder(fwd_hh[6])
    /\ ~HasPlaceholder(file[6])

\* every conditional that is opened is closed later, and none is closed
\* before it is opened
CondBalanced(text) ==
    LET opens(k) == Cardinality({i \in 1..k : IsCondOpen(text[i])})
        closes(k) == Cardinality({i \in 1..k : IsCondClose(text[i])})
    IN  /\ \A k \in 0..Len(text) : closes(k) <= opens(k)
        /\ closes(Len(text)) = opens(Len(text))

\* C3 as stated: after substitution (by a value without newline) the guard
\* is a preprocessor conditional: every opened conditional is closed, one
\* is opened before the namespace line and closed after the namespace's
\* closing brace.
C3_ConditionalGuard ==
    (passes >= 1 /\ NoNewline(value)) =>
        /\ CondBalanced(file)
        /\ \E g \in 1..Len(file) : \E e \in 1..Len(file) :
               /\ IsCondOpen(file[g])
               /\ IsCondClose(file[e])
               /\ \A n \in NamespaceLines(file) : g < n
               /\ \A b \in 1..Len(file) : file[b] = <<"}">> => b < e

\* C3 amended: after substitution (by a value without newline) the include
\* guard is the single '#pragma once' directive of line 1, before the
\* namespace line; it is the only preprocessor directive, so no conditional
\* is opened or closed anywhere, and the namespace's closing brace is the
\* last line of the file.
C3_PragmaOnceGuard ==
    (passes >= 1 /\ NoNewline(value)) =>
        /\ file[1] = PragmaOnce
        /\ \A n \in NamespaceLines(file) : 1 < n
        /\ \A i \in 1..Len(file) : IsDirective(file[i]) => i = 1
        /\ \A i \in 1..Len(file) : ~IsCondOpen(file[i]) /\ ~IsCondClose(file[i])
        /\ CondBalanced(file)
        /\ file[Len(file)] = <<"}">>

\* an expanded header whose guard line and closing brace are in place
C3_Witness ==
    /\ passes = 1
    /\ last = "expand"
    /\ value = <<"m", "y", "p", "r", "o", "j">>
    /\ file[1] = PragmaOnce
    /\ NamespaceLines(file) = {6}
    /\ file[24] = <<"}">>

\* the text is source the target language accepts: every line is blank, a
\* comment, the pragma, a namespace header with an identifier as its name,
\* or a lone brace, and the braces pair up
ValidSource(text) ==
    /\ \A i \in 1..Len(text) :
           \/ IsBlank(text[i])
           \/ IsComment(text[i])
           \/ text[i] = PragmaOnce
           \/ IsNamespaceLine(text[i]) /\ ValidIdentifier(NamespaceName(text[i]))
           \/ IsLoneBrace(text[i])
    /\ LET code == CodeChars(text) IN
       /\ \A k \in 0..Len(code) : Depth(code, k) >= 0
       /\ Depth(code, Len(code)) = 0

\* C4: the template holds the token in a code position, as the name of the
\* namespace, and the file is valid source only once the substitution step
\* has happened, never before it.
C4_ValidOnlyAfterSubstitution ==
    /\ passes = 0 =>
           \E i \in 1..Len(file) :
               /\ ~IsComment(file[i])
               /\ IsNamespaceLine(file[i])
               /\ NamespaceName(file[i]) = Token
    /\ ValidSource(file) => passes >= 1

\* the substitution step has made the file valid source
C4_Witness ==
    /\ passes = 1
    /\ last = "expand"
    /\ ValidSource(file)
    /\ ~ValidSource(fwd_hh)
    /\ file[6] # fwd_hh[6]

\* a line that declares and defines nothing
IsScaffoldLine(l) ==
    \/ IsBlank(l)
    \/ IsComment(l)
    \/ l = PragmaOnce
    \/ IsNamespaceLine(l)
    \/ IsLoneBrace(l)

\* C5: before substitution and after it (by a value without newline) every
\* non-blank line is a comment, the '#pragma once' directive, the namespace
\* header line or a lone brace, and every non-blank line strictly between
\* the opening and the closing brace is a comment.
C5_NoDeclarations ==
    (passes = 0 \/ NoNewline(value)) =>
        /\ \A i \in 1..Len(file) : IsScaffoldLine(file[i])
        /\ \A o \in 1..Len(file) : \A c \in 1..Len(file) :
               (file[o] = <<"{">> /\ file[c] = <<"}">>) =>
                   \A i \in (o + 1)..(c - 1) :
                       IsBlank(file[i]) \/ IsComment(file[i])

\* an expanded header with comment lines between its two braces
C5_Witness ==
    /\ passes = 1
    /\ last = "expand"
    /\ NoNewline(value)
    /\ Len(value) = MaxValueLen
    /\ file[7] = <<"{">>
    /\ file[24] = <<"}">>
    /\ \E i \in 8..23 : IsComment(file[i])

\* C6: for a value without newline, substitution leaves the file at 24
\* lines and changes no line other than line 6.
C6_OnlyLine6Changes ==
    (passes >= 1 /\ NoNewline(value)) =>
        /\ Len(file) = 24
        /\ Len(file) = Len(fwd_hh)
        /\ \A i \in 1..Len(file) : i # 6 => file[i] = fwd_hh[i]

\* a newline-free value has changed line 6
C6_Witness ==
    /\ passes = 1
    /\ last = "expand"
    /\ NoNewline(value)
    /\ Len(value) = MaxValueLen
    /\ file[6] # fwd_hh[6]
    /\ file[6] = NamespaceKw \o value

====
